---- MODULE Spec2Model ----
(***************************************************************************)
(* A model of experi (src/src/experi/run.py): the variable-matrix          *)
(* expansion (variable_matrix and its iterators) as recursive operators,   *)
(* and the dispatch of the resulting jobs (main, process_structure,        *)
(* run_bash_jobs, run_pbs_jobs) as a state machine.                        *)
(***************************************************************************)
EXTENDS Integers, Sequences, FiniteSets, TLC

\* ------------------------------------------------------------------------
\* Bounds of the model.
\* ------------------------------------------------------------------------
\* Longest list of scalars enumerated as a variable's values.
MaxLen == 2

\* Most job definitions in the "jobs" list of an input file.
MaxJobs == 3

\* Most bindings in a matrix handed to process_command on its own.
MaxBindings == 3

\* ------------------------------------------------------------------------
\* ValueTree: what yaml.load hands to variable_matrix.  A scalar is an
\* integer, a list an ordered sequence of trees, a mapping an ordered
\* sequence of (key, value) entries with distinct keys (a python dict).
\* ------------------------------------------------------------------------
None == "<None>"

ScalarT(n) == [t |-> "scalar", v |-> n, kids |-> <<>>]

ListT(items) == [t |-> "list", v |-> 0, kids |-> items]

Entry(k, x) == [key |-> k, val |-> x]

MapT(entries) == [t |-> "map", v |-> 0, kids |-> entries]

\* dict.get(key): the value, or None when the key is absent.
HasKey(entries, k) == \E i \in 1..Len(entries) : entries[i].key = k

Get(entries, k) == entries[CHOOSE i \in 1..Len(entries) : entries[i].key = k].val

\* del dict[key]
Del(entries, k) == SelectSeq(entries, LAMBDA e : e.key # k)

\* bool(value) as python's `if variables.get(key)` tests it: a missing key,
\* 0, an empty list and an empty mapping are all false.
Truthy(x) == IF x.t = "scalar" THEN x.v # 0 ELSE x.kids # <<>>

\* ------------------------------------------------------------------------
\* Results of a call: the list the generator is collected into, or the
\* exception that list() propagates.
\* ------------------------------------------------------------------------
Ok(rows) == [err |-> "none", rows |-> rows]

Raise(e) == [err |-> e, rows |-> <<>>]

EmptyBinding == [k \in {} |-> 0]

RECURSIVE MergeAll(_)
\* combine_dictionaries: dict(ChainMap(*dicts)); on a collision the first
\* dictionary of the list wins.
MergeAll(dicts) ==
    IF Len(dicts) = 0 THEN EmptyBinding
    ELSE Head(dicts) @@ MergeAll(Tail(dicts))

combine_dictionaries(dicts) == MergeAll(dicts)

MinLen(kv) ==
    CHOOSE n \in {Len(kv[i]) : i \in 1..Len(kv)} :
        \A i \in 1..Len(kv) : n <= Len(kv[i])

LongestLen(kv) ==
    CHOOSE n \in {Len(kv[i]) : i \in 1..Len(kv)} :
        \A i \in 1..Len(kv) : n >= Len(kv[i])

\* The k-th elements of the lists that have one.
Column(kv, k) ==
    [i \in 1..Len(SelectSeq(kv, LAMBDA l : Len(l) >= k)) |->
        SelectSeq(kv, LAMBDA l : Len(l) >= k)[i][k]]

\* A zip that goes on to the end of the longest list, leaving out the lists
\* that have ended.
ZipLongest(kv) ==
    IF Len(kv) = 0 THEN <<>>
    ELSE [k \in 1..LongestLen(kv) |-> Column(kv, k)]

\* zip(*key_vars): the k-th elements of every list, up to the shortest list;
\* nothing for no lists at all.
Zip(kv) ==
    IF Len(kv) = 0 THEN <<>>
    ELSE [k \in 1..MinLen(kv) |-> [i \in 1..Len(kv) |-> kv[i][k]]]

\* A product that pairs its lists element by element.
ProductPairwise(kv) == IF Len(kv) = 0 THEN << <<>> >> ELSE Zip(kv)

RECURSIVE Product(_)
\* itertools.product(*key_vars): every choice of one element per list, the
\* last list varying fastest; one empty tuple for no lists at all.
Product(kv) ==
    IF Len(kv) = 0 THEN << <<>> >>
    ELSE LET rest == Product(Tail(kv))
             n == Len(kv[1])
             m == Len(rest)
         IN  [k \in 1..(n * m) |->
                 <<kv[1][((k - 1) \div m) + 1]>> \o rest[((k - 1) % m) + 1]]

\* A lookup of the iterator that gives the product whatever is asked.
IterateAsProduct(iterator, kv) == Product(kv)

\* _iters[iterator](*key_vars)
Iterate(iterator, kv) == IF iterator = "product" THEN Product(kv) ELSE Zip(kv)

\* np.arange(start, stop, step) for integers and a positive step.
ARange(start, stop, step) ==
    IF stop <= start THEN <<>>
    ELSE [k \in 1..(((stop - start - 1) \div step) + 1) |-> start + (k - 1) * step]

special_keys == <<"zip", "product", "arange", "combine">>

NoLists(e) == [err |-> e, lists |-> <<>>]

\* The lists collected so far with one more call's list in front, or the
\* first exception raised.
ConsLists(r, rest) ==
    IF r.err # "none" THEN NoLists(r.err)
    ELSE IF rest.err # "none" THEN rest
    ELSE [err |-> "none", lists |-> <<r.rows>> \o rest.lists]

RECURSIVE Flatten(_)
Flatten(lists) == IF Len(lists) = 0 THEN <<>> ELSE Head(lists) \o Flatten(Tail(lists))

\* run.py:178-180: the items' bindings one after the other.
Chain(each) == IF each.err # "none" THEN Raise(each.err) ELSE Ok(Flatten(each.lists))

\* run.py:172-175: one merged dictionary per tuple the iterator gives.
Combine(kv) ==
    IF kv.err # "none" THEN Raise(kv.err)
    ELSE Ok([k \in 1..Len(Iterate(kv.iterator, kv.key_vars)) |->
                combine_dictionaries(Iterate(kv.iterator, kv.key_vars)[k])])

\* The keyword arguments np.arange(**variables) accepts here.
arange_keys == {"start", "stop", "step"}

ArgOr(entries, k, default) == IF HasKey(entries, k) THEN Get(entries, k).v ELSE default

\* [{parent: i} for i in values]
Named(parent, values) ==
    [err |-> "none", lists |-> << [k \in 1..Len(values) |-> (parent :> values[k])] >>]

\* run.py:110-132
iterator_arange(variables, parent) ==
    IF parent = None THEN NoLists("AssertionError")
    ELSE IF variables.t = "scalar" THEN Named(parent, ARange(0, variables.v, 1))
    ELSE IF variables.t = "map"
    THEN IF ~(HasKey(variables.kids, "stop") /\ Truthy(Get(variables.kids, "stop")))
         THEN NoLists("ValueError")
         ELSE IF \E i \in 1..Len(variables.kids) :
                    \/ variables.kids[i].key \notin arange_keys
                    \/ variables.kids[i].val.t # "scalar"
              THEN NoLists("TypeError")
              ELSE Named(parent, ARange(ArgOr(variables.kids, "start", 0),
                                        Get(variables.kids, "stop").v,
                                        ArgOr(variables.kids, "step", 1)))
    ELSE NoLists("ValueError")

\* The state of run.py:153-165 after the special key `key`, whose iterator
\* gave r: its lists are appended to key_vars and the key is deleted from
\* the mapping; combine switches the iterator to zip.
AfterSpecial(st, key, r) ==
    IF r.err # "none" THEN [st EXCEPT !.err = r.err]
    ELSE [err |-> "none",
          key_vars |-> st.key_vars \o r.lists,
          iterator |-> IF key = "combine" THEN "zip" ELSE st.iterator,
          entries |-> Del(st.entries, key)]

\* run.py:157 `if variables.get(key)`
Present(entries, key) == HasKey(entries, key) /\ Truthy(Get(entries, key))

\* key_vars with the lists of the ordinary keys appended.
WithOrdinary(sp, ord) ==
    IF ord.err # "none" THEN [sp EXCEPT !.err = ord.err]
    ELSE [sp EXCEPT !.key_vars = sp.key_vars \o ord.lists]

RECURSIVE variable_matrix(_, _, _)
RECURSIVE EachMatrix(_, _, _)
\* list(variable_matrix(item, parent, iterator)) for every item in turn.
EachMatrix(items, parent, iterator) ==
    IF Len(items) = 0 THEN NoLists("none")
    ELSE ConsLists(variable_matrix(Head(items), parent, iterator),
                   EachMatrix(Tail(items), parent, iterator))

RECURSIVE EachKey(_, _)
\* run.py:167-168: list(variable_matrix(value, key, iterator)) for every
\* remaining (key, value) of the mapping, in the mapping's order.
EachKey(entries, iterator) ==
    IF Len(entries) = 0 THEN NoLists("none")
    ELSE ConsLists(variable_matrix(Head(entries).val, Head(entries).key, iterator),
                   EachKey(Tail(entries), iterator))

\* run.py:49-66
iterator_zip(variables, parent) ==
    EachMatrix(IF variables.t = "list" THEN variables.kids ELSE <<variables>>,
               parent, "zip")

\* run.py:69-85
iterator_product(variables, parent) ==
    IF variables.t = "list" THEN NoLists("ValueError")
    ELSE EachMatrix(<<variables>>, parent, "product")

\* run.py:88-107
iterator_combine(variables, parent) ==
    IF variables.t # "list" THEN NoLists("ValueError")
    ELSE EachMatrix(variables.kids, parent, "product")

\* run.py:145-150, 160: _special_keys[key](item, parent)
CallSpecial(key, item, parent) ==
    CASE key = "zip" -> iterator_zip(item, parent)
      [] key = "product" -> iterator_product(item, parent)
      [] key = "arange" -> iterator_arange(item, parent)
      [] key = "combine" -> iterator_combine(item, parent)

RECURSIVE SpecialPass(_, _, _)
\* run.py:156-165: the special keys in their fixed order; each one present
\* with a true value is handled, the others are left in the mapping.
SpecialPass(i, st, parent) ==
    IF i > Len(special_keys) \/ st.err # "none" THEN st
    ELSE SpecialPass(i + 1,
             IF Present(st.entries, special_keys[i])
             THEN AfterSpecial(st, special_keys[i],
                      CallSpecial(special_keys[i], Get(st.entries, special_keys[i]),
                                  parent))
             ELSE st,
             parent)

\* The ordinary keys after the special ones.
OrdinaryPass(sp) ==
    IF sp.err # "none" THEN sp
    ELSE WithOrdinary(sp, EachKey(sp.entries, sp.iterator))

\* run.py:152-168: key_vars of a mapping, the iterator in force after the
\* special keys, and the entries left in the mapping.
KeyVars(variables, parent, iterator) ==
    OrdinaryPass(SpecialPass(1, [err |-> "none", key_vars |-> <<>>,
                                 iterator |-> iterator, entries |-> variables.kids],
                             parent))

\* run.py:135-186
variable_matrix(variables, parent, iterator) ==
    IF variables.t = "map" THEN Combine(KeyVars(variables, parent, iterator))
    ELSE IF variables.t = "list" THEN Chain(EachMatrix(variables.kids, parent, iterator))
    ELSE IF parent = None THEN Raise("AssertionError")
    ELSE Ok(<<(parent :> variables.v)>>)

\* ------------------------------------------------------------------------
\* Commands and jobs (experi.commands, imported at run.py:25).  A command
\* template is a name and the set of the variables it refers to; a Command
\* holds one substituted string per template of its spec, a Job the
\* Commands of one job definition and the scheduler options.
\* ------------------------------------------------------------------------
Tpl(name, vars) == [name |-> name, vars |-> vars]

\* template.format(**variables)
Format(tpl, variables) == [cmd |-> tpl.name, vars |-> [k \in tpl.vars |-> variables[k]]]

\* Command(cmd, variables, creates, requires): iterating it gives its
\* substituted strings; two Commands are equal when these are.
Command(tpls, variables, creates, requires) ==
    [cmds |-> [i \in 1..Len(tpls) |-> Format(tpls[i], variables)],
     creates |-> creates, requires |-> requires]

\* Job(commands, scheduler_options); job.shell is its default.
Job(commands, scheduler_options) ==
    [commands |-> commands, options |-> scheduler_options, shell |-> "bash"]

NoJob == Job(<<>>, "unset")

\* The forms of a command spec in the input file: absent (None), one
\* template string, a list of template strings, or a mapping with a cmd.
NoCommand == [kind |-> "none", tpls |-> <<>>, creates |-> "", requires |-> ""]

StrCommand(tpl) == [kind |-> "str", tpls |-> <<tpl>>, creates |-> "", requires |-> ""]

ListCommand(tpls) == [kind |-> "list", tpls |-> tpls, creates |-> "", requires |-> ""]

DictCommand(tpls, creates, requires) ==
    [kind |-> "dict", tpls |-> tpls, creates |-> creates, requires |-> requires]

RECURSIVE UniqueifyKeepLast(_)
\* The duplicates removed with the last of equal entries kept.
UniqueifyKeepLast(my_list) ==
    IF Len(my_list) = 0 THEN <<>>
    ELSE UniqueifyKeepLast(SelectSeq(SubSeq(my_list, 1, Len(my_list) - 1),
                                     LAMBDA x : x # my_list[Len(my_list)]))
         \o <<my_list[Len(my_list)]>>

RECURSIVE uniqueify(_)
\* run.py:189-198: list(dict.fromkeys(my_list)), the first of equal entries
\* kept, in order.
uniqueify(my_list) ==
    IF Len(my_list) = 0 THEN <<>>
    ELSE <<Head(my_list)>> \o
         uniqueify(SelectSeq(Tail(my_list), LAMBDA x : x # Head(my_list)))

\* A template refers to a variable some binding of the matrix lacks.
Unbound(command, matrix) ==
    \E i \in 1..Len(command.tpls), j \in 1..Len(matrix) :
        ~(command.tpls[i].vars \subseteq DOMAIN matrix[j])

\* run.py:214-237
process_command(command, matrix) ==
    IF command.kind = "none" THEN Raise("AssertionError")
    ELSE IF command.kind = "dict" /\ Len(command.tpls) = 0 THEN Raise("AssertionError")
    ELSE IF Unbound(command, matrix) THEN Raise("UnboundVariable")
    ELSE Ok(uniqueify([j \in 1..Len(matrix) |->
                Command(command.tpls, matrix[j], command.creates, command.requires)]))

\* What a generator does when it is driven to its end: the items it yields
\* and the exception it then raises, "none" for a plain StopIteration.
Gen(items, err) == [items |-> items, err |-> err]

RECURSIVE process_jobs(_, _, _)
\* run.py:201-211
process_jobs(jobs, matrix, scheduler_options) ==
    IF Len(jobs) = 0 THEN Gen(<<>>, "none")
    ELSE IF Head(jobs).command.kind = "none" THEN Gen(<<>>, "AssertionError")
    ELSE LET cmds == process_command(Head(jobs).command, matrix)
         IN  IF cmds.err # "none" THEN Gen(<<>>, cmds.err)
             ELSE LET rest == process_jobs(Tail(jobs), matrix, scheduler_options)
                  IN  Gen(<<Job(cmds.rows, scheduler_options)>> \o rest.items, rest.err)

\* The input file as read_file returns it.  variables is a ValueTree or
\* NoTree; shell and pbs are "absent", "true", "dict" (a mapping of options)
\* or "bad" (another true value); jobs is the job list when has_jobs.
NoTree == [t |-> "none", v |-> 0, kids |-> <<>>]

JobDef(command) == [command |-> command]

Structure(variables, shell, pbs, has_jobs, jobs, command) ==
    [variables |-> variables, shell |-> shell, pbs |-> pbs,
     has_jobs |-> has_jobs, jobs |-> jobs, command |-> command]

\* run.py:429-448
process_scheduler(st) ==
    IF st.shell # "absent" THEN "shell"
    ELSE IF st.pbs # "absent" THEN "pbs"
    ELSE "shell"

\* structure.get(scheduler)
Selected(st, sched) == IF sched = "shell" THEN st.shell ELSE st.pbs

\* Job definitions that keep a list of templates in one definition.
JobsDictAsOne(st) == IF st.has_jobs THEN st.jobs ELSE <<JobDef(st.command)>>

\* run.py:308-314: the job definitions, from "jobs" or from "command".
JobsDict(st) ==
    IF st.has_jobs THEN st.jobs
    ELSE IF st.command.kind = "list"
         THEN [i \in 1..Len(st.command.tpls) |->
                  JobDef(StrCommand(st.command.tpls[i]))]
         ELSE <<JobDef(st.command)>>

\* run.py:284-316
process_structure(st, sched) ==
    IF st.variables.t = "none" THEN Gen(<<>>, "KeyError")
    ELSE IF st.variables.t # "map" THEN Gen(<<>>, "AssertionError")
    ELSE LET variables == variable_matrix(st.variables, None, "product")
         IN  IF variables.err # "none" THEN Gen(<<>>, variables.err)
             ELSE IF Len(variables.rows) = 0 THEN Gen(<<>>, "AssertionError")
             ELSE IF Selected(st, sched) = "bad" THEN Gen(<<>>, "AssertionError")
             ELSE process_jobs(JobsDict(st), variables.rows,
                               IF Selected(st, sched) = "absent" THEN "None"
                               ELSE IF Selected(st, sched) = "true" THEN "{}"
                               ELSE "options")

\* create_pbs_file(job) as run.py:401 calls it: the text of the submission
\* file, with the array size and the bash array of the job's commands.
create_pbs_file(job) == [num_jobs |-> Len(job.commands), command_list |-> job.commands]

\* ------------------------------------------------------------------------
\* State.
\* ------------------------------------------------------------------------
VARIABLES
    tree,         \* variable_matrix's argument `variables`
    parent,       \* variable_matrix's argument `parent`
    iterator,     \* variable_matrix's argument `iterator`
    result,       \* what list(variable_matrix(...)) or process_command(...) gave
    command,      \* process_command's argument `command`
    matrix,       \* process_command's argument `matrix`
    structure,    \* the input file, as read_file returns it
    pc,           \* where main is
    scheduler,    \* process_scheduler's answer
    yielded,      \* how many jobs the process_structure generator has yielded
    job,          \* the loop variable `job`
    ci,           \* run_bash_jobs: position of `command` in the job
    ki,           \* run_bash_jobs: position of `cmd` in the command
    failed,       \* run_bash_jobs: the flag `failed`
    runs,         \* every subprocess.run so far: job, command, cmd, returncode
    submit_job,   \* run_pbs_jobs: the flag `submit_job`
    removed,      \* the submission files os.remove deleted
    dir,          \* the submission files in the directory: index -> content
    prev_jobids,  \* run_pbs_jobs: the list `prev_jobids`
    submissions,  \* every qsub so far: file index, dependency list, outcome
    exc,          \* the exception main ended with, "none" if none
    status        \* the exit status of the process, -1 while it runs

matrix_vars == <<tree, parent, iterator, result, command, matrix>>

main_vars == <<structure, scheduler, yielded, job, ci, ki, failed, runs, submit_job,
               removed, dir, prev_jobids, submissions, exc, status>>

vars == <<tree, parent, iterator, result, command, matrix, structure, pc, scheduler, yielded, job, ci,
          ki, failed, runs, submit_job, removed, dir, prev_jobids, submissions, exc,
          status>>

\* ------------------------------------------------------------------------
\* The inputs enumerated.
\* ------------------------------------------------------------------------
Vals == 0..1

VarNames == <<"a", "b", "c">>

SeqsUpTo(S, n) == UNION {[1..k -> S] : k \in 0..n}

ScalarList(s) == ListT([i \in 1..Len(s) |-> ScalarT(s[i])])

ScalarLists == {ScalarList(s) : s \in SeqsUpTo(Vals, MaxLen)}

\* The mapping with the keys of `names` that f maps to a tree, in order.
MapOf(names, f) ==
    MapT([i \in 1..Len(SelectSeq(names, LAMBDA k : f[k].t # "none")) |->
            Entry(SelectSeq(names, LAMBDA k : f[k].t # "none")[i],
                  f[SelectSeq(names, LAMBDA k : f[k].t # "none")[i]])])

Range(s) == {s[i] : i \in 1..Len(s)}

\* Every mapping of some of `names`, in order, to trees of `leafs`.
FlatMaps(names, leafs) ==
    {MapOf(names, f) : f \in [Range(names) -> leafs \cup {NoTree}]}

\* Mappings of variables to lists of scalars.
ListMaps == FlatMaps(VarNames, ScalarLists)

SmallLeafs == {ScalarT(1), ScalarList(<<1>>), ScalarList(<<0, 1>>)}

SmallMaps == FlatMaps(<<"a", "b">>, SmallLeafs)

ARangeMaps ==
    {MapT(<<Entry("start", ScalarT(1)), Entry("stop", ScalarT(3))>>),
     MapT(<<Entry("start", ScalarT(0)), Entry("stop", ScalarT(3)), Entry("step", ScalarT(2))>>),
     MapT(<<Entry("start", ScalarT(0)), Entry("stop", ScalarT(0))>>),
     MapT(<<Entry("start", ScalarT(1))>>),
     MapT(<<Entry("start", ScalarT(0)), Entry("stop", ScalarT(2)), Entry("end", ScalarT(1))>>)}

\* The values given to a special key.
SpecialArgs ==
    SmallMaps \cup ARangeMaps
    \cup {ListT(s) : s \in SeqsUpTo(SmallMaps, 2)}
    \cup {ScalarT(n) : n \in 0..2}

\* A mapping with one special key, alone or before an ordinary key.
SpecialTrees ==
    {MapT(<<Entry(special_keys[i], x)>> \o rest) :
        i \in 1..Len(special_keys), x \in SpecialArgs,
        rest \in {<<>>, <<Entry("c", ScalarList(<<1, 0>>))>>}}

\* A variable whose value is a list of mappings.
NestedTrees ==
    {MapT(<<Entry("c", ListT(<<m1, m2>>))>>) : m1 \in SmallMaps, m2 \in SmallMaps}

Templates == [t1 |-> Tpl("echo {a}", {"a"}), t2 |-> Tpl("true", {})]

CommandSpecs ==
    {NoCommand, StrCommand(Templates.t1), StrCommand(Templates.t2),
     ListCommand(<<Templates.t1, Templates.t2>>),
     DictCommand(<<Templates.t1>>, "out", "in")}

\* The command specs of the job definitions of a "jobs" list.
JobCommandSpecs ==
    {NoCommand, StrCommand(Templates.t1), ListCommand(<<Templates.t2, Templates.t1>>)}

VariableChoices ==
    {NoTree,
     ScalarList(<<1>>),
     MapT(<<Entry("product", ListT(<<MapT(<<>>)>>))>>),
     MapT(<<Entry("a", ScalarList(<<>>))>>),
     MapT(<<Entry("a", ScalarList(<<1>>))>>),
     MapT(<<Entry("a", ScalarList(<<1, 2>>))>>)}

SelectorChoices ==
    {<<"absent", "absent">>, <<"true", "dict">>, <<"absent", "true">>,
     <<"absent", "dict">>, <<"absent", "bad">>}

Structures ==
    {Structure(v, s[1], s[2], FALSE, <<>>, c) :
        v \in VariableChoices, s \in SelectorChoices, c \in CommandSpecs}
    \cup
    {Structure(v, s[1], s[2], TRUE, [i \in 1..Len(cs) |-> JobDef(cs[i])], NoCommand) :
        v \in VariableChoices, s \in SelectorChoices,
        cs \in SeqsUpTo(JobCommandSpecs, MaxJobs)}

\* Submission files that may be in the directory from an earlier run.
StaleFiles == {{}, {0, 7}}

\* What qsub prints for a job it accepts.
QsubOutputs == {<<"1", "\n">>, <<" ", "2", "\n">>}

Whitespace == {" ", "\n"}

RECURSIVE LStrip(_)
LStrip(s) == IF Len(s) > 0 /\ Head(s) \in Whitespace THEN LStrip(Tail(s)) ELSE s

RECURSIVE RStrip(_)
RStrip(s) ==
    IF Len(s) > 0 /\ s[Len(s)] \in Whitespace THEN RStrip(SubSeq(s, 1, Len(s) - 1)) ELSE s

\* cmd_res.decode().strip()
Strip(s) == LStrip(RStrip(s))

\* ------------------------------------------------------------------------
\* main (run.py:458-475) and the dispatch it ends in.
\* ------------------------------------------------------------------------
MatrixIdle ==
    /\ tree = NoTree
    /\ parent = None
    /\ iterator = "product"
    /\ result = Raise("unset")
    /\ command = NoCommand
    /\ matrix = <<>>

MainIdle ==
    /\ structure = Structure(NoTree, "absent", "absent", FALSE, <<>>, NoCommand)
    /\ scheduler = "unset"
    /\ yielded = 0
    /\ job = NoJob
    /\ ci = 0
    /\ ki = 0
    /\ failed = FALSE
    /\ runs = <<>>
    /\ submit_job = TRUE
    /\ removed = {}
    /\ dir = <<>>
    /\ prev_jobids = <<>>
    /\ submissions = <<>>
    /\ exc = "none"
    /\ status = -1

Init ==
    /\ MatrixIdle
    /\ MainIdle
    /\ pc = "read_file"

\* The process_structure generator: what it yields, and how it ends.
Jobs == process_structure(structure, scheduler)

\* An exception nothing catches ends the process with status 1.
Uncaught(e) ==
    /\ exc' = e
    /\ status' = 1
    /\ pc' = "exited"

\* main returns: the process ends with status 0.
Return ==
    /\ status' = 0
    /\ pc' = "exited"
    /\ exc' = exc

\* run.py:472-475: read the file, pick the scheduler, create the generator
\* of jobs (nothing of it runs yet) and enter run_jobs.
Main ==
    /\ pc = "read_file"
    /\ \E st \in Structures :
        /\ structure' = st
        /\ scheduler' = process_scheduler(st)
        /\ pc' = IF process_scheduler(st) = "shell" THEN "bash_next" ELSE "pbs_which"
    /\ UNCHANGED <<matrix_vars, yielded, job, ci, ki, failed, runs, submit_job, removed,
                   dir, prev_jobids, submissions, exc, status>>

\* run.py:343 `for job in jobs`: the generator runs to its next yield.
BashNextJob ==
    /\ pc = "bash_next"
    /\ IF yielded < Len(Jobs.items)
       THEN /\ job' = Jobs.items[yielded + 1]
            /\ yielded' = yielded + 1
            /\ pc' = "bash_which"
            /\ UNCHANGED <<exc, status>>
       ELSE /\ UNCHANGED <<job, yielded>>
            /\ IF Jobs.err # "none" THEN Uncaught(Jobs.err) ELSE Return
    /\ UNCHANGED <<matrix_vars, structure, scheduler, ci, ki, failed, runs, submit_job,
                   removed, dir, prev_jobids, submissions>>

\* run.py:345-348: the shell is looked up; `failed` is reset.
BashWhich ==
    /\ pc = "bash_which"
    /\ \E found \in BOOLEAN :
        IF found
        THEN /\ failed' = FALSE
             /\ ci' = 1
             /\ ki' = 1
             /\ pc' = IF Len(job.commands) = 0 THEN "bash_after" ELSE "bash_run"
             /\ UNCHANGED <<exc, status>>
        ELSE /\ Uncaught("ProcessLookupError")
             /\ UNCHANGED <<failed, ci, ki>>
    /\ UNCHANGED <<matrix_vars, structure, scheduler, yielded, job, runs, submit_job,
                   removed, dir, prev_jobids, submissions>>

\* Where the loops of run.py:349-350 stand after the cmd at (c, k) returned
\* rc: a non-zero status breaks out of `for cmd in command` only.
AfterRun(c, k, rc) ==
    IF rc # 0 \/ k >= Len(job.commands[c].cmds) THEN <<c + 1, 1>> ELSE <<c, k + 1>>

\* run.py:351-356: one subprocess.run and the test of its return code.
BashRun ==
    /\ pc = "bash_run"
    /\ \E rc \in 0..1 :
        /\ runs' = Append(runs, [job |-> yielded, command |-> ci, cmd |-> ki, rc |-> rc])
        /\ failed' = (failed \/ rc # 0)
        /\ ci' = AfterRun(ci, ki, rc)[1]
        /\ ki' = AfterRun(ci, ki, rc)[2]
        /\ pc' = IF AfterRun(ci, ki, rc)[1] > Len(job.commands)
                 THEN "bash_after" ELSE "bash_run"
    /\ UNCHANGED <<matrix_vars, structure, scheduler, yielded, job, submit_job, removed,
                   dir, prev_jobids, submissions, exc, status>>

\* run.py:357-359: after the job's commands, return if one failed.
BashAfterJob ==
    /\ pc = "bash_after"
    /\ IF failed THEN Return
       ELSE /\ pc' = "bash_next"
            /\ UNCHANGED <<exc, status>>
    /\ UNCHANGED <<matrix_vars, structure, scheduler, yielded, job, ci, ki, failed, runs,
                   submit_job, removed, dir, prev_jobids, submissions>>

\* run.py:379-387: is qsub on the path?
PbsWhich ==
    /\ pc = "pbs_which"
    /\ \E found \in BOOLEAN : submit_job' = found
    /\ pc' = "pbs_remove"
    /\ UNCHANGED <<matrix_vars, structure, scheduler, yielded, job, ci, ki, failed, runs,
                   removed, dir, prev_jobids, submissions, exc, status>>

\* run.py:392-395: every file the glob finds is removed.
PbsRemove ==
    /\ pc = "pbs_remove"
    /\ \E stale \in StaleFiles : removed' = stale
    /\ dir' = <<>>
    /\ pc' = "pbs_next"
    /\ UNCHANGED <<matrix_vars, structure, scheduler, yielded, job, ci, ki, failed, runs,
                   submit_job, prev_jobids, submissions, exc, status>>

\* run.py:399 `for index, job in enumerate(jobs)`
PbsNextJob ==
    /\ pc = "pbs_next"
    /\ IF yielded < Len(Jobs.items)
       THEN /\ job' = Jobs.items[yielded + 1]
            /\ yielded' = yielded + 1
            /\ pc' = "pbs_write"
            /\ UNCHANGED <<exc, status>>
       ELSE /\ UNCHANGED <<job, yielded>>
            /\ IF Jobs.err # "none" THEN Uncaught(Jobs.err) ELSE Return
    /\ UNCHANGED <<matrix_vars, structure, scheduler, ci, ki, failed, runs, submit_job,
                   removed, dir, prev_jobids, submissions>>

\* A loop that submits whether or not qsub was found.
AfterWriteSubmit(submit) == "pbs_submit"

\* run.py:407: with no qsub the loop goes on to the next job.
AfterWrite(submit) == IF submit THEN "pbs_submit" ELSE "pbs_next"

\* run.py:400-407: the file of the job is rendered and written under its
\* index (yielded - 1, as enumerate counts from 0).
PbsWrite ==
    /\ pc = "pbs_write"
    /\ dir' = ((yielded - 1) :> create_pbs_file(job)) @@ dir
    /\ pc' = AfterWrite(submit_job)
    /\ UNCHANGED <<matrix_vars, structure, scheduler, yielded, job, ci, ki, failed, runs,
                   submit_job, removed, prev_jobids, submissions, exc, status>>

RECURSIVE Join(_, _)
\* sep.join(ids)
Join(sep, ids) ==
    IF Len(ids) = 0 THEN <<>>
    ELSE IF Len(ids) = 1 THEN ids[1]
    ELSE ids[1] \o <<sep>> \o Join(sep, Tail(ids))

\* A dependency on the job submitted last only.
DependArgsOnLast(jobids) ==
    IF Len(jobids) = 0 THEN <<>>
    ELSE <<"-W", <<"depend=afterok:">> \o jobids[Len(jobids)] \o <<" ">> >>

\* run.py:409-414: what follows "qsub" on the command line before the file
\* name: nothing for the first job, the dependency on every job id so far
\* for the others.
DependArgs(jobids) ==
    IF Len(jobids) = 0 THEN <<>>
    ELSE <<"-W", <<"depend=afterok:">> \o Join(":", jobids) \o <<" ">> >>

\* A loop that goes on to the next job after a qsub that fails.
AfterQsubErrorContinue ==
    /\ pc' = "pbs_next"
    /\ UNCHANGED <<exc, status>>

\* run.py:422-424: a qsub that fails breaks out of the loop, and
\* run_pbs_jobs returns.
AfterQsubError == Return

\* run.py:408-426: qsub, which prints the id of the job or fails.
PbsSubmit ==
    /\ pc = "pbs_submit"
    /\ \/ \E out \in QsubOutputs :
            /\ submissions' = Append(submissions,
                   [file |-> yielded - 1, args |-> DependArgs(prev_jobids),
                    ok |-> TRUE, out |-> out])
            /\ prev_jobids' = Append(prev_jobids, Strip(out))
            /\ pc' = "pbs_next"
            /\ UNCHANGED <<exc, status>>
       \/ /\ submissions' = Append(submissions,
                   [file |-> yielded - 1, args |-> DependArgs(prev_jobids),
                    ok |-> FALSE, out |-> <<>>])
          /\ UNCHANGED prev_jobids
          /\ AfterQsubError
    /\ UNCHANGED <<matrix_vars, structure, scheduler, yielded, job, ci, ki, failed, runs,
                   submit_job, removed, dir>>

Next ==
    \/ Main
    \/ BashNextJob
    \/ BashWhich
    \/ BashRun
    \/ BashAfterJob
    \/ PbsWhich
    \/ PbsRemove
    \/ PbsNextJob
    \/ PbsWrite
    \/ PbsSubmit

Spec == Init /\ [][Next]_vars

\* ------------------------------------------------------------------------
\* variable_matrix on its own: a call with an enumerated argument.
\* ------------------------------------------------------------------------
MatrixTrees == ListMaps \cup SpecialTrees \cup NestedTrees

InitMatrix ==
    /\ tree \in MatrixTrees
    /\ parent \in {None, "p"}
    /\ iterator \in {"product", "zip"}
    /\ result = Raise("unset")
    /\ command = NoCommand
    /\ matrix = <<>>
    /\ MainIdle
    /\ pc = "call"

\* list(variable_matrix(tree, parent, iterator))
Expand ==
    /\ pc = "call"
    /\ result' = variable_matrix(tree, parent, iterator)
    /\ pc' = "returned"
    /\ UNCHANGED <<tree, parent, iterator, command, matrix, main_vars>>

NextMatrix == Expand

SpecMatrix == InitMatrix /\ [][NextMatrix]_vars

\* ------------------------------------------------------------------------
\* process_command on its own: a call with an enumerated command spec and
\* an enumerated matrix.
\* ------------------------------------------------------------------------
\* The bindings of a matrix: of both variables, or of "b" alone.
Bindings == [{"a", "b"} -> Vals] \cup [{"b"} -> Vals]

Matrices == SeqsUpTo(Bindings, MaxBindings)

InitCommand ==
    /\ command \in CommandSpecs
    /\ matrix \in Matrices
    /\ tree = NoTree
    /\ parent = None
    /\ iterator = "product"
    /\ result = Raise("unset")
    /\ MainIdle
    /\ pc = "call"

\* process_command(command, matrix)
Materialize ==
    /\ pc = "call"
    /\ result' = process_command(command, matrix)
    /\ pc' = "returned"
    /\ UNCHANGED <<tree, parent, iterator, command, matrix, main_vars>>

NextCommand == Materialize

SpecCommand == InitCommand /\ [][NextCommand]_vars

\* ------------------------------------------------------------------------
\* Properties of variable_matrix (checked under SpecMatrix).
\* ------------------------------------------------------------------------
\* A mapping of ordinary keys to lists of scalars.
IsListMap(x) ==
    /\ x.t = "map"
    /\ \A i \in 1..Len(x.kids) :
        /\ x.kids[i].key \notin Range(special_keys)
        /\ x.kids[i].val.t = "list"
        /\ \A j \in 1..Len(x.kids[i].val.kids) : x.kids[i].val.kids[j].t = "scalar"

KeysOf(x) == {x.kids[i].key : i \in 1..Len(x.kids)}

\* The number of values listed for the i-th key.
Card(x, i) == Len(x.kids[i].val.kids)

\* The j-th value listed for the i-th key.
ValueAt(x, i, j) == x.kids[i].val.kids[j].v

RECURSIVE ProductOfCards(_, _)
ProductOfCards(x, i) ==
    IF i > Len(x.kids) THEN 1 ELSE Card(x, i) * ProductOfCards(x, i + 1)

LeastCard(x) ==
    CHOOSE n \in {Card(x, i) : i \in 1..Len(x.kids)} :
        \A i \in 1..Len(x.kids) : n <= Card(x, i)

\* Every choice of one listed value per key, as the position chosen.
Choices(x) ==
    {f \in [1..Len(x.kids) -> 1..MaxLen] : \A i \in 1..Len(x.kids) : f[i] <= Card(x, i)}

\* C4 as stated: under zip, sibling lists of unequal length raise
\* ZipLengthMismatch and yield no binding; lists of one length L yield
\* exactly L bindings.
C4_ZipLengthMismatch ==
    (pc = "returned" /\ iterator = "zip" /\ IsListMap(tree) /\ Len(tree.kids) > 0) =>
        IF \E i \in 1..Len(tree.kids) : Card(tree, i) # Card(tree, 1)
        THEN result.err = "ZipLengthMismatch" /\ result.rows = <<>>
        ELSE result.err = "none" /\ Len(result.rows) = Card(tree, 1)

\* C4 amended: under zip, sibling lists never raise; the result has as many
\* bindings as the shortest list has values (L when all have length L), the
\* k-th binding giving every key the k-th value of its list.
C4_ZipTruncates ==
    (pc = "returned" /\ iterator = "zip" /\ IsListMap(tree) /\ Len(tree.kids) > 0) =>
        /\ result.err = "none"
        /\ Len(result.rows) = LeastCard(tree)
        /\ \A k \in 1..Len(result.rows) :
            /\ DOMAIN result.rows[k] = KeysOf(tree)
            /\ \A i \in 1..Len(tree.kids) :
                result.rows[k][tree.kids[i].key] = ValueAt(tree, i, k)

\* Lists of unequal length were zipped, and bindings came out.
C4_Witness ==
    /\ pc = "returned"
    /\ iterator = "zip"
    /\ IsListMap(tree)
    /\ Len(tree.kids) = 2
    /\ Card(tree, 1) # Card(tree, 2)
    /\ Len(result.rows) > 0

\* C5: in product mode a mapping of keys K1..Kn to lists of c1..cn scalars
\* gives exactly c1*...*cn bindings, each over exactly K1..Kn, and every
\* combination of one value per key is among them.
C5_ProductIsComplete ==
    (pc = "returned" /\ iterator = "product" /\ IsListMap(tree)) =>
        /\ result.err = "none"
        /\ Len(result.rows) = ProductOfCards(tree, 1)
        /\ \A k \in 1..Len(result.rows) : DOMAIN result.rows[k] = KeysOf(tree)
        /\ \A f \in Choices(tree) :
            \E k \in 1..Len(result.rows) :
                \A i \in 1..Len(tree.kids) :
                    result.rows[k][tree.kids[i].key] = ValueAt(tree, i, f[i])

\* Three keys with two values each were expanded.
C5_Witness ==
    /\ pc = "returned"
    /\ iterator = "product"
    /\ IsListMap(tree)
    /\ Len(tree.kids) = 3
    /\ \A i \in 1..3 : Card(tree, i) = 2
    /\ Len(result.rows) = 8

RECURSIVE AllKeys(_)
\* Every key of every mapping of a tree.
AllKeys(x) ==
    IF x.t = "scalar" THEN {}
    ELSE UNION {IF x.t = "map"
                THEN {x.kids[i].key} \cup AllKeys(x.kids[i].val)
                ELSE AllKeys(x.kids[i]) : i \in 1..Len(x.kids)}

RECURSIVE MapInList(_)
\* Some list of the tree has a mapping among its elements.
MapInList(x) ==
    /\ x.t # "scalar"
    /\ \E i \in 1..Len(x.kids) :
        IF x.t = "map" THEN MapInList(x.kids[i].val)
        ELSE x.kids[i].t = "map" \/ MapInList(x.kids[i])

SameKeys(rows) == \A i, j \in 1..Len(rows) : DOMAIN rows[i] = DOMAIN rows[j]

C1_NothingRunsAfterFailure ==
    \A i \in 1..Len(runs) : runs[i].rc # 0 => i = Len(runs)

\* The job ids qsub returned for the submissions before the k-th.
IdsBefore(k) == [i \in 1..(k - 1) |-> Strip(submissions[i].out)]

AllSubmitted == \A k \in 1..Len(submissions) : submissions[k].ok

ConfigErrors == {"KeyError", "AssertionError", "ValueError", "TypeError", "UnboundVariable"}

\* C3: a configuration error is raised before any effect of the dispatch:
\* no file removed or written, no job submitted, no command run.
C3_ConfigErrorBeforeDispatch ==
    exc \in ConfigErrors =>
        /\ removed = {}
        /\ dir = <<>>
        /\ submissions = <<>>
        /\ runs = <<>>

Failed ==
    \/ \E i \in 1..Len(runs) : runs[i].rc # 0
    \/ \E k \in 1..Len(submissions) : ~submissions[k].ok

\* C9: main exits with a non-zero status whenever the dispatch failed.
C9_FailureExitsNonZero ==
    (pc = "exited" /\ Failed) => status # 0

\* The templates of the commands of a job, one sequence per Command.
TemplatesOf(j) ==
    {[k \in 1..Len(j.commands[i].cmds) |-> j.commands[i].cmds[k].cmd] :
        i \in 1..Len(j.commands)}

NoJobsList == pc \notin {"read_file", "call", "returned"} /\ ~structure.has_jobs

\* The run went through every job: nothing raised, nothing failed.
RanToTheEnd == pc = "exited" /\ exc = "none" /\ ~Failed

\* C10 as stated: with no "jobs" list, process_structure yields exactly one
\* Job from the top-level command, a single template or a list of them.
C10_OneImplicitJob ==
    (NoJobsList /\ structure.command.kind \in {"str", "list"} /\ RanToTheEnd) =>
        yielded = 1

\* C10 amended: with no "jobs" list, a single template (or a mapping with a
\* cmd) yields exactly one Job; a list of K templates yields K Jobs, the
\* i-th holding the Commands of the i-th template alone.
C10_OneJobPerTemplate ==
    (NoJobsList /\ Jobs.err = "none") =>
        /\ RanToTheEnd => yielded = Len(Jobs.items)
        /\ yielded > 0 => job = Jobs.items[yielded]
        /\ IF structure.command.kind = "list"
           THEN /\ Len(Jobs.items) = Len(structure.command.tpls)
                /\ \A i \in 1..Len(Jobs.items) :
                       TemplatesOf(Jobs.items[i]) = {<<structure.command.tpls[i].name>>}
           ELSE /\ Len(Jobs.items) = 1
                /\ TemplatesOf(Jobs.items[1]) =
                       {[k \in 1..Len(structure.command.tpls) |->
                            structure.command.tpls[k].name]}

\* A list of two templates was dispatched as two jobs.
C10_Witness ==
    /\ pc = "exited"
    /\ exc = "none"
    /\ ~structure.has_jobs
    /\ structure.command.kind = "list"
    /\ Len(structure.command.tpls) = 2
    /\ yielded = 2

\* ------------------------------------------------------------------------
\* Properties of process_command (checked under SpecCommand).
\* ------------------------------------------------------------------------
\* The Command the j-th binding of the matrix produces.
Produced(j) == Command(command.tpls, matrix[j], command.creates, command.requires)

\* The position of the first binding that produces the Command c.
FirstProducer(c) ==
    CHOOSE j \in 1..Len(matrix) :
        /\ Produced(j) = c
        /\ \A k \in 1..(j - 1) : Produced(k) # c

\* C11: process_command returns the Commands deduplicated, first-seen order
\* kept: no two entries of the result are equal, every Command some binding
\* produces is in it, and the entries are in the order of their first
\* producing bindings.
C11_DedupFirstSeen ==
    (pc = "returned" /\ result.err = "none") =>
        /\ \A i, k \in 1..Len(result.rows) : i # k => result.rows[i] # result.rows[k]
        /\ Range(result.rows) = {Produced(j) : j \in 1..Len(matrix)}
        /\ \A i, k \in 1..Len(result.rows) :
               i < k => FirstProducer(result.rows[i]) < FirstProducer(result.rows[k])

\* 'echo {a}' over three bindings, the first and the third with the same a,
\* the second with another, gave two Commands.
C11_Witness ==
    /\ pc = "returned"
    /\ result.err = "none"
    /\ command.kind = "str"
    /\ command.tpls[1].vars = {"a"}
    /\ Len(matrix) = 3
    /\ matrix[1]["a"] = matrix[3]["a"]
    /\ matrix[1]["a"] # matrix[2]["a"]
    /\ Len(result.rows) = 2

\* ------------------------------------------------------------------------
\* The special keys of a mapping (checked under SpecMatrix).
\* ------------------------------------------------------------------------
\* C12: every special key present in the mapping, whatever its value, is
\* removed before the remaining keys are expanded, so that no binding of
\* the result has a key named zip, product, arange or combine.
C12_SpecialKeysRemoved ==
    (pc = "returned" /\ result.err = "none" /\ tree.t = "map") =>
        \A i \in 1..Len(result.rows) :
            DOMAIN result.rows[i] \cap Range(special_keys) = {}

====
